---- MODULE Spec2Model ----
(***************************************************************************)
(* Model of src/scraper.py: one scrape() cycle is                          *)
(*   fetch_data -> extract_ads -> load_ads_from_file -> check_for_new_ads  *)
(*   -> send_notification -> save_ads_to_file,                             *)
(* wrapped in the try/except of scrape().  The two snapshot files and the  *)
(* SMTP relay are the shared environment; every cycle has its own locals.  *)
(*                                                                         *)
(* A str is a sequence of characters, so that strip(), find(), replace()   *)
(* and split() are computed.  A file is a sequence of bytes: json.dump is  *)
(* a printer followed by the UTF-8 encoding, json.loads a parser after the *)
(* decoding, and a write that tears a file tears it at a byte.  A value    *)
(* read back from a file is tagged with its Python type, since json.loads  *)
(* returns whatever the file holds.                                        *)
(***************************************************************************)
EXTENDS Naturals, Sequences, FiniteSets, TLC

\* ---------------------------------------------------------------- bounds
MaxCycles == 2      \* scrape() invocations started in one behaviour
MaxBody == 2        \* chunks in one response body

\* ------------------------------------------------------------ str helpers
\* A character is a string of length 1; "nbsp" is U+00A0, "s-caron" U+0161,
\* "S-caron" U+0160 and "inverted-excl" U+00A1.
Range(s) == {s[i] : i \in 1..Len(s)}

From(s, i) == SubSeq(s, i, Len(s))

\* The characters str.strip() removes
Whitespace == {" ", "\n", "\t", "\r", "\f", "nbsp"}

RECURSIVE lstrip(_)
lstrip(s) == IF s # <<>> /\ Head(s) \in Whitespace THEN lstrip(Tail(s)) ELSE s

RECURSIVE rstrip(_)
rstrip(s) ==
    IF s # <<>> /\ s[Len(s)] \in Whitespace THEN rstrip(SubSeq(s, 1, Len(s) - 1)) ELSE s

\* str.strip()
strip(s) == rstrip(lstrip(s))

\* str.replace(old, "")
RECURSIVE remove_all(_, _)
remove_all(s, old) ==
    IF old = <<>> \/ Len(s) < Len(old) THEN s
    ELSE IF SubSeq(s, 1, Len(old)) = old THEN remove_all(From(s, Len(old) + 1), old)
    ELSE <<Head(s)>> \o remove_all(Tail(s), old)

\* str.replace("\xa0", "")
remove_nbsp(s) == remove_all(s, <<"nbsp">>)

\* The index of the first occurrence of sub in s at or after i, 0 for none
RECURSIVE find_from(_, _, _)
find_from(s, sub, i) ==
    IF i + Len(sub) - 1 > Len(s) THEN 0
    ELSE IF SubSeq(s, i, i + Len(sub) - 1) = sub THEN i
    ELSE find_from(s, sub, i + 1)

\* str.find(sub): the index of the first occurrence counted from 1, 0 for -1
find(s, sub) == find_from(s, sub, 1)

\* str.split("\n")[0]
first_line(s) ==
    LET nl == find(s, <<"\n">>) IN IF nl = 0 THEN s ELSE SubSeq(s, 1, nl - 1)

SITE_ORIGIN ==
    <<"h", "t", "t", "p", "s", ":", "/", "/", "w", "w", "w", ".",
      "n", "j", "u", "s", "k", "a", "l", "o", ".", "h", "r">>
LOKACIJA == <<"L", "o", "k", "a", "c", "i", "j", "a", ":">>
POVRSINA ==
    <<"S", "t", "a", "m", "b", "e", "n", "a", " ",
      "p", "o", "v", "r", "s-caron", "i", "n", "a", ":">>

\* ------------------------------------------------------- markup (the input)
\* An optional element of a listing block is a sequence of length 0 (find()
\* returned None) or 1 (the element's text; for the anchor, its href).
NoEl == <<>>
El(text) == <<text>>

\* One chunk of a response body: the access-denial phrase, any other text,
\* or one <li class="EntityList-item--Regular"> block with its h3, its
\* description div, its price and its anchor (link: there is an anchor).
Chunk(kind, title, desc, price, link, href) ==
    [kind |-> kind, title |-> title, desc |-> desc, price |-> price,
     link |-> link, href |-> href]

DenialMarker == Chunk("denial", NoEl, NoEl, NoEl, FALSE, NoEl)
OtherMarkup == Chunk("text", NoEl, NoEl, NoEl, FALSE, NoEl)
ItemA == Chunk("li", El(<<" ", "A", "\n">>),
               El(POVRSINA \o <<" ", "5", "0", " ", "m", "2", "\n">>
                  \o LOKACIJA \o <<" ", "Z", "a", "g", "r", "e", "b", " ">>),
               El(<<"1", "nbsp", "e", " ">>), TRUE, El(<<"/", "a">>))
ItemB == Chunk("li", El(<<"A">>), El(LOKACIJA \o <<" ", "S", "p", "l", "i", "t">>),
               NoEl, FALSE, NoEl)
ItemNoHref == Chunk("li", El(<<"A">>), NoEl, NoEl, TRUE, NoEl)

Chunks == {DenialMarker, ItemA, ItemB, ItemNoHref}

SeqsUpTo(S, n) == UNION {[1..k -> S] : k \in 0..n}

\* The response bodies: the empty one, the listings, with or without the
\* denial phrase, and a page that lists nothing
Bodies == SeqsUpTo(Chunks, MaxBody) \cup {<<OtherMarkup>>}

\* The listings on which overlapping cycles are followed
ListingBodies == {<<ItemA>>, <<ItemB, ItemB>>, <<ItemA, ItemB>>}

\* -------------------------------------------------------- call outcomes
\* What a call does: return a value, or raise the named exception.
Return(v) == [exc |-> "none", ret |-> v]
Raise(e) == [exc |-> e, ret |-> <<>>]

\* ------------------------------------------------------------- AdRecord
K_TITLE == <<"1", ".", " ", "t", "i", "t", "l", "e">>
K_SIZE == <<"2", ".", " ", "s", "i", "z", "e">>
K_LOCATION == <<"3", ".", " ", "l", "o", "c", "a", "t", "i", "o", "n">>
K_PRICE == <<"4", ".", " ", "p", "r", "i", "c", "e">>
K_DESCRIPTION ==
    <<"5", ".", " ", "d", "e", "s", "c", "r", "i", "p", "t", "i", "o", "n">>
K_LINK == <<"6", ".", " ", "l", "i", "n", "k">>

\* The order in which _parse_single_ad inserts the keys it sets; a dict
\* enumerates (and json.dump writes) its keys in insertion order.
KeyOrder == <<K_TITLE, K_LOCATION, K_DESCRIPTION, K_SIZE, K_PRICE, K_LINK>>

\* A dict from str to str is a function from keys to texts.
EmptyDict == [k \in {} |-> <<>>]

\* d[k] = v on a dict
DictSet(d, k, v) == [x \in (DOMAIN d) \cup {k} |-> IF x = k THEN v ELSE d[x]]

\* The if desc_el: block of _parse_single_ad, on the dict d built so far
parse_description(d, desc) ==
    LET description_text == strip(desc)
        loc_start == find(description_text, LOKACIJA)
        location_text == strip(From(description_text, loc_start + Len(LOKACIJA)))
        d1 == IF loc_start # 0
              THEN DictSet(DictSet(d, K_LOCATION, location_text), K_DESCRIPTION,
                           strip(remove_all(description_text,
                                            LOKACIJA \o <<" ">> \o location_text)))
              ELSE d
        size_start == find(description_text, POVRSINA)
        size_text ==
            strip(first_line(From(description_text, size_start + Len(POVRSINA))))
    IN  IF size_start # 0 THEN DictSet(d1, K_SIZE, size_text) ELSE d1

parse_single_ad(ad_item) ==
    LET d1 == IF ad_item.title # NoEl
              THEN DictSet(EmptyDict, K_TITLE, strip(ad_item.title[1]))
              ELSE EmptyDict
        d2 == IF ad_item.desc # NoEl THEN parse_description(d1, ad_item.desc[1]) ELSE d1
        d3 == IF ad_item.price # NoEl
              THEN DictSet(d2, K_PRICE, strip(remove_nbsp(ad_item.price[1])))
              ELSE d2
    IN  IF ~ad_item.link THEN Return(d3)
        ELSE IF ad_item.href = NoEl THEN Raise("KeyError")
        ELSE Return(DictSet(d3, K_LINK, SITE_ORIGIN \o ad_item.href[1]))

\* soup.find_all("li", class_="EntityList-item--Regular")
find_all_items(html_content) == SelectSeq(html_content, LAMBDA c : c.kind = "li")

\* The parsing half of extract_ads: ads = [_parse_single_ad(item) for item in
\* ad_items]; the first item that raises ends the comprehension.
parse_ads(html_content) ==
    LET ad_items == find_all_items(html_content)
        parsed == [i \in 1..Len(ad_items) |-> parse_single_ad(ad_items[i])]
    IN  IF \E i \in 1..Len(parsed) : parsed[i].exc # "none"
        THEN Raise("KeyError")
        ELSE Return([i \in 1..Len(parsed) |-> parsed[i].ret])

\* -------------------------------------------------------- Python values
\* What json.loads can return from these files: a str, a list, a dict with
\* str keys.
PyStr(text) == [py |-> "str", items |-> text]
PyList(seq) == [py |-> "list", items |-> seq]
PyDict(fn) == [py |-> "dict", items |-> fn]

\* The value of an ad dict, and of a list of ad dicts
PyAd(ad) == PyDict([k \in DOMAIN ad |-> PyStr(ad[k])])
PyAds(ads) == PyList([i \in 1..Len(ads) |-> PyAd(ads[i])])

\* a == b
RECURSIVE py_eq(_, _)
py_eq(a, b) ==
    /\ a.py = b.py
    /\ IF a.py = "str" THEN a.items = b.items
       ELSE IF a.py = "list"
       THEN /\ Len(a.items) = Len(b.items)
            /\ \A i \in 1..Len(a.items) : py_eq(a.items[i], b.items[i])
       ELSE /\ DOMAIN a.items = DOMAIN b.items
            /\ \A k \in DOMAIN a.items : py_eq(a.items[k], b.items[k])

\* ------------------------------------------------------------ json.dump
QUOTE == "\""
BACKSLASH == "\\"

\* The characters a JSON string writes as a two-character escape, with the
\* second character of the escape
EscapeOf == [c \in {QUOTE, BACKSLASH, "\n", "\t", "\r", "\f"} |->
                IF c = "\n" THEN "n" ELSE IF c = "\t" THEN "t"
                ELSE IF c = "\r" THEN "r" ELSE IF c = "\f" THEN "f" ELSE c]

RECURSIVE escape(_)
escape(text) ==
    IF \A i \in 1..Len(text) : text[i] \notin DOMAIN EscapeOf THEN text
    ELSE IF Len(text) = 1 THEN <<BACKSLASH, EscapeOf[text[1]]>>
    ELSE LET h == Len(text) \div 2
         IN  escape(SubSeq(text, 1, h)) \o escape(From(text, h + 1))

\* a str, with ensure_ascii=False
dump_str(text) == <<QUOTE>> \o escape(text) \o <<QUOTE>>

RECURSIVE dump_members(_, _, _)
dump_members(ad, i, first) ==
    IF i > Len(KeyOrder) THEN <<>>
    ELSE IF KeyOrder[i] \in DOMAIN ad
    THEN (IF first THEN <<>> ELSE <<",">>)
         \o <<"\n", " ", " ", " ", " ">>
         \o dump_str(KeyOrder[i]) \o <<":", " ">> \o dump_str(ad[KeyOrder[i]])
         \o dump_members(ad, i + 1, FALSE)
    ELSE dump_members(ad, i + 1, first)

\* a dict at the second level of indent=2
dump_dict(ad) ==
    IF DOMAIN ad = {} THEN <<"{", "}">>
    ELSE <<"{">> \o dump_members(ad, 1, TRUE) \o <<"\n", " ", " ", "}">>

RECURSIVE dump_elements(_, _)
dump_elements(ads, i) ==
    IF i > Len(ads) THEN <<>>
    ELSE (IF i = 1 THEN <<>> ELSE <<",">>) \o <<"\n", " ", " ">> \o dump_dict(ads[i])
         \o dump_elements(ads, i + 1)

\* json.dump(ads, file, ensure_ascii=False, indent=2): the text written
json_dump(ads) ==
    IF ads = <<>> THEN <<"[", "]">>
    ELSE <<"[">> \o dump_elements(ads, 1) \o <<"\n", "]">>

\* ---------------------------------------------------------------- UTF-8
\* encoding="utf-8".  A byte is named by its ASCII character, or by its two
\* hexadecimal digits when it is not ASCII.
TwoBytes == [c \in {"nbsp", "inverted-excl", "S-caron", "s-caron"} |->
                IF c = "nbsp" THEN <<"C2", "A0">>
                ELSE IF c = "inverted-excl" THEN <<"C2", "A1">>
                ELSE IF c = "S-caron" THEN <<"C5", "A0">>
                ELSE <<"C5", "A1">>]

RECURSIVE utf8_encode(_)
utf8_encode(text) ==
    IF \A i \in 1..Len(text) : text[i] \notin DOMAIN TwoBytes THEN text
    ELSE IF Len(text) = 1 THEN TwoBytes[text[1]]
    ELSE LET h == Len(text) \div 2
         IN  utf8_encode(SubSeq(text, 1, h)) \o utf8_encode(From(text, h + 1))

\* The bytes that are not ASCII: lead bytes, continuation bytes, and a byte
\* that occurs in no UTF-8 text
LeadBytes == {"C2", "C5"}
ContinuationBytes == {"A0", "A1"}
InvalidBytes == {"FF"}

\* file.read(): the text of the bytes, or UnicodeDecodeError when a lead byte
\* has no continuation byte after it, a continuation byte no lead byte before
\* it, or a byte is invalid
utf8_decode(bytes) ==
    LET lead(i) == bytes[i] \in LeadBytes
        continuation(i) == bytes[i] \in ContinuationBytes
        char(i) == IF lead(i)
                   THEN CHOOSE c \in DOMAIN TwoBytes :
                            TwoBytes[c] = <<bytes[i], bytes[i + 1]>>
                   ELSE IF continuation(i) THEN "" ELSE bytes[i]
    IN  IF \A i \in 1..Len(bytes) :
               bytes[i] \notin LeadBytes \cup ContinuationBytes \cup InvalidBytes
        THEN Return(bytes)
        ELSE IF \A i \in 1..Len(bytes) :
               /\ bytes[i] \notin InvalidBytes
               /\ lead(i) => (i < Len(bytes) /\ continuation(i + 1))
               /\ continuation(i) => (i > 1 /\ lead(i - 1))
        THEN Return(SelectSeq([i \in 1..Len(bytes) |-> char(i)], LAMBDA c : c # ""))
        ELSE Raise("UnicodeDecodeError")

\* ----------------------------------------------------------- json.loads
ParseFail == [ok |-> FALSE, val |-> PyStr(<<>>), next |-> 0]
Parsed(v, next) == [ok |-> TRUE, val |-> v, next |-> next]

\* The whitespace of JSON
JsonWhitespace == {" ", "\n", "\t", "\r"}

\* The index of the first character at or after i that is not whitespace
RECURSIVE skip_whitespace(_, _)
skip_whitespace(s, i) ==
    IF i <= Len(s) /\ s[i] \in JsonWhitespace THEN skip_whitespace(s, i + 1) ELSE i

\* What the character after a backslash stands for; \b and \uXXXX are escapes
\* too, of characters that occur in none of these texts
Unescape == [c \in {QUOTE, BACKSLASH, "/", "n", "t", "r", "f"} |->
                IF c = "n" THEN "\n" ELSE IF c = "t" THEN "\t"
                ELSE IF c = "r" THEN "\r" ELSE IF c = "f" THEN "\f" ELSE c]

\* A JSON string, i the index after its opening quote; a control character
\* inside a string is an error
RECURSIVE parse_string(_, _, _)
parse_string(s, i, acc) ==
    IF i > Len(s) THEN ParseFail
    ELSE IF s[i] = QUOTE THEN Parsed(PyStr(acc), i + 1)
    ELSE IF s[i] = BACKSLASH
    THEN IF i < Len(s) /\ s[i + 1] \in DOMAIN Unescape
         THEN parse_string(s, i + 2, Append(acc, Unescape[s[i + 1]]))
         ELSE ParseFail
    ELSE IF s[i] \in {"\n", "\t", "\r", "\f"} THEN ParseFail
    ELSE parse_string(s, i + 1, Append(acc, s[i]))

RECURSIVE parse_value(_, _)
RECURSIVE parse_elements(_, _, _)
RECURSIVE parse_members(_, _, _)

\* One JSON value at index i: a string, an array or an object.  Numbers and
\* the literals true, false, null are values too; none occurs as a whole
\* value in a text these files can hold.
parse_value(s, i) ==
    IF i > Len(s) THEN ParseFail
    ELSE IF s[i] = QUOTE THEN parse_string(s, i + 1, <<>>)
    ELSE IF s[i] = "["
    THEN LET j == skip_whitespace(s, i + 1)
         IN  IF j <= Len(s) /\ s[j] = "]" THEN Parsed(PyList(<<>>), j + 1)
             ELSE parse_elements(s, j, <<>>)
    ELSE IF s[i] = "{"
    THEN LET j == skip_whitespace(s, i + 1)
         IN  IF j <= Len(s) /\ s[j] = "}" THEN Parsed(PyDict(EmptyDict), j + 1)
             ELSE parse_members(s, j, EmptyDict)
    ELSE ParseFail

\* The elements of an array, i at an element
parse_elements(s, i, acc) ==
    LET e == parse_value(s, i)
        j == skip_whitespace(s, e.next)
    IN  IF ~e.ok \/ j > Len(s) THEN ParseFail
        ELSE IF s[j] = "]" THEN Parsed(PyList(Append(acc, e.val)), j + 1)
        ELSE IF s[j] = ","
        THEN parse_elements(s, skip_whitespace(s, j + 1), Append(acc, e.val))
        ELSE ParseFail

\* The members of an object, i at a key; a repeated key keeps the last value
parse_members(s, i, acc) ==
    IF i > Len(s) \/ s[i] # QUOTE THEN ParseFail
    ELSE LET k == parse_string(s, i + 1, <<>>)
             c == skip_whitespace(s, k.next)
         IN  IF ~k.ok \/ c > Len(s) \/ s[c] # ":" THEN ParseFail
             ELSE LET m == parse_value(s, skip_whitespace(s, c + 1))
                      j == skip_whitespace(s, m.next)
                      acc2 == DictSet(acc, k.val.items, m.val)
                  IN  IF ~m.ok \/ j > Len(s) THEN ParseFail
                      ELSE IF s[j] = "}" THEN Parsed(PyDict(acc2), j + 1)
                      ELSE IF s[j] = ","
                      THEN parse_members(s, skip_whitespace(s, j + 1), acc2)
                      ELSE ParseFail

\* json.loads(data): the value of a text that is one JSON value,
\* JSONDecodeError for any other text
json_loads(data) ==
    LET r == parse_value(data, skip_whitespace(data, 1))
    IN  IF r.ok /\ skip_whitespace(data, r.next) > Len(data)
        THEN Return(r.val) ELSE Raise("JSONDecodeError")

\* ---------------------------------------------------------------- files
\* A path of the file system: whether a file is there, whether this process
\* may read it, and its bytes.
File(exists, readable, bytes) ==
    [exists |-> exists, readable |-> readable, bytes |-> bytes]

NoFile == File(FALSE, FALSE, <<>>)
TextFile(text) == File(TRUE, TRUE, utf8_encode(text))

\* open(file_path, "w"): the file is created or cut to length 0; the
\* permissions of an existing file stay as they are.
truncated(f) == File(TRUE, IF f.exists THEN f.readable ELSE TRUE, <<>>)

\* The bytes json.dump(ads, file) hands to the file.  A snapshot of a few
\* records is smaller than the buffer of the file object (8 KiB), so its bytes
\* reach the file in one piece, when the with block closes it.
snapshot_bytes(ads) == utf8_encode(json_dump(ads))

\* The file after the first n of those bytes were written from offset 0 over
\* what it holds by then: all of them when the close succeeds, fewer when the
\* flush raises.
written(f, bytes, n) ==
    File(TRUE, f.readable, SubSeq(bytes, 1, n) \o From(f.bytes, n + 1))

load_ads_from_file(f) ==
    IF ~f.exists THEN Return(PyList(<<>>))              \* except FileNotFoundError
    ELSE IF ~f.readable THEN Raise("PermissionError")   \* open(): not caught
    ELSE LET data == utf8_decode(f.bytes)
         IN  IF data.exc # "none" THEN data             \* file.read(): not caught
             ELSE IF data.ret = <<>> THEN Return(PyList(<<>>))   \* if data else []
             ELSE LET r == json_loads(data.ret)
                  IN  IF r.exc = "none" THEN r
                      ELSE Return(PyList(<<>>))         \* except JSONDecodeError
\* ----------------------------------------------------------------- diff
\* ad not in previous_ads, previous_ads a list: no element equals ad
not_in(ad, previous_items) ==
    \A j \in 1..Len(previous_items) : ~py_eq(previous_items[j], PyAd(ad))

\* A variant that reports a record once however often it is listed.
check_for_new_ads_once(previous_ads, current_ads) ==
    IF current_ads = <<>> THEN Return(<<>>)
    ELSE IF previous_ads.py = "list"
    THEN LET first(i) == \A k \in 1..(i - 1) : current_ads[k] # current_ads[i]
             upto[i \in 0..Len(current_ads)] ==
                 IF i = 0 THEN <<>>
                 ELSE upto[i - 1] \o (IF not_in(current_ads[i], previous_ads.items) /\ first(i)
                                      THEN <<current_ads[i]>> ELSE <<>>)
         IN  Return(upto[Len(current_ads)])
    ELSE Raise("TypeError")

\* new_ads = [ad for ad in current_ads if ad not in previous_ads].  The test
\* is evaluated once per current ad: on a dict it hashes the ad (unhashable),
\* on a str it wants a str on the left.
check_for_new_ads(previous_ads, current_ads) ==
    IF current_ads = <<>> THEN Return(<<>>)
    ELSE IF previous_ads.py = "list"
    THEN Return(SelectSeq(current_ads, LAMBDA ad : not_in(ad, previous_ads.items)))
    ELSE Raise("TypeError")

\* ---------------------------------------------------------------- fetch
\* What the network gives session.get + raise_for_status: a transport
\* failure, or a 2xx response with a body.
Transport == {"ok", "ConnectionError", "HTTPError", "Timeout"}

DENIAL_PHRASE_IN(content) == \E i \in 1..Len(content) : content[i].kind = "denial"

\* A variant that trusts every 2xx response.
fetch_data_any_body(transport, body) ==
    IF transport # "ok" THEN Raise("FetchDataError") ELSE Return(body)

fetch_data(transport, body) ==
    IF transport # "ok" THEN Raise("FetchDataError")     \* except RequestException
    ELSE IF DENIAL_PHRASE_IN(body) THEN Raise("FetchDataError")
    ELSE Return(body)

\* ----------------------------------------------------------------- SMTP
\* How the SMTP session of send_notification goes: "ok", or the call of the
\* try block that raises.
SmtpOutcomes == {"ok", "connect", "starttls", "login", "sendmail"}

\* A variant without the except clause: a failure of the session propagates.
send_notification_propagating(ads, smtp) ==
    IF ads = <<>> THEN [exc |-> "none", attempted |-> FALSE, delivered |-> FALSE]
    ELSE [exc |-> (IF smtp = "ok" THEN "none" ELSE "SMTPException"),
          attempted |-> TRUE, delivered |-> (smtp = "ok")]

\* A variant without the early return on an empty list.
send_notification_always(ads, smtp) ==
    [exc |-> "none", attempted |-> TRUE, delivered |-> (smtp = "ok")]

\* send_notification(new_ads); the except clause swallows every failure of
\* the SMTP session.  attempted: smtplib.SMTP(...) was called.
send_notification(ads, smtp) ==
    IF ads = <<>> THEN [exc |-> "none", attempted |-> FALSE, delivered |-> FALSE]
    ELSE [exc |-> "none", attempted |-> TRUE, delivered |-> (smtp = "ok")]

\* ---------------------------------------------------------------- state
\* The triggers that invoke scrape(): the periodic timer and the on-demand
\* request.
Triggers == {"timer", "ondemand"}

VARIABLES
    previous_ads_file,   \* PREVIOUS_ADS_FILE on disk
    current_ads_file,    \* CURRENT_ADS_FILE on disk
    cycles,              \* scrape() invocations started so far
    pc,                  \* per trigger: where its scrape() stands
    html_content,        \* per trigger: locals of scrape()
    current_ads,
    previous_ads,
    new_ads,
    mail,                \* per trigger: the SMTP session of this cycle: "none" (no
                         \* connection attempted), "sent" or "failed"
    logged,              \* per trigger: what the except clauses of scrape() logged
    response,            \* per trigger: what the network answered in this cycle
    failed_at,           \* per trigger: the step that raised in this cycle
    fetched_after,       \* per trigger: the triggers whose running cycle had
                         \* its response when this cycle got its own
    unsent,              \* ads new in a cycle whose send failed, listed ever since
    lost                 \* those of them whose cycle was done, no later write of
                         \* the previous snapshot having failed

vars == <<previous_ads_file, current_ads_file, cycles, pc, html_content,
          current_ads, previous_ads, new_ads, mail, logged, response, failed_at,
          fetched_after, unsent, lost>>

Ended == {"Done", "Failed", "Skipped"}

\* The records the listing page can show, and one it no longer shows.
AdA == parse_single_ad(ItemA).ret
AdB == parse_single_ad(ItemB).ret
AdOld == DictSet(EmptyDict, K_TITLE, <<"C">>)

\* What may lie at the path of the previous snapshot when the program starts:
\* nothing, an empty file, the empty list, a snapshot cut short, JSON that is
\* not a list or not a list of records, bytes that are not UTF-8, a file this
\* process may not read, and snapshots of an earlier run that hold an ad no
\* longer listed.
InitialPreviousFiles ==
    {NoFile, TextFile(<<>>), TextFile(json_dump(<<>>)), TextFile(<<"[", "{">>),
     TextFile(<<"{", "}">>), TextFile(<<"[", QUOTE, "x", QUOTE, "]">>),
     File(TRUE, TRUE, <<"FF">>),
     File(TRUE, FALSE, snapshot_bytes(<<AdA>>)),
     TextFile(json_dump(<<AdOld>>)),
     TextFile(json_dump(<<AdOld, AdA>>))}

\* The current snapshot at start-up: none on a first run, else what the
\* extraction of an earlier run left.
InitialCurrentFile(previous) ==
    IF previous.exists THEN TextFile(json_dump(<<AdOld>>)) ELSE NoFile

NoResponse == [transport |-> "none", body |-> <<>>]

Init ==
    /\ previous_ads_file \in InitialPreviousFiles
    /\ current_ads_file = InitialCurrentFile(previous_ads_file)
    /\ cycles = 0
    /\ pc = [p \in Triggers |-> "Idle"]
    /\ html_content = [p \in Triggers |-> <<>>]
    /\ current_ads = [p \in Triggers |-> <<>>]
    /\ previous_ads = [p \in Triggers |-> PyList(<<>>)]
    /\ new_ads = [p \in Triggers |-> <<>>]
    /\ mail = [p \in Triggers |-> "none"]
    /\ logged = [p \in Triggers |-> "none"]
    /\ response = [p \in Triggers |-> NoResponse]
    /\ failed_at = [p \in Triggers |-> "none"]
    /\ fetched_after = [p \in Triggers |-> {}]
    /\ unsent = {}
    /\ lost = {}

\* -------------------------------------------------------------- scrape()
\* A variant that holds a lock for the whole cycle.
can_start_locked(p) == \A q \in Triggers : pc[q] \in {"Idle", "Done", "Failed", "Skipped"}

\* scrape() acquires nothing before it starts: a trigger whose own cycle is
\* not running may start one whatever the other trigger is doing.
can_start(p) == pc[p] \in Ended \cup {"Idle"}

\* A single worker: the trigger starts a cycle only when no cycle is running.
worker_free == \A q \in Triggers : pc[q] \in Ended \cup {"Idle"}

Start(p) ==
    /\ can_start(p)
    /\ cycles < MaxCycles
    /\ cycles' = cycles + 1
    /\ pc' = [pc EXCEPT ![p] = "Fetching"]
    /\ html_content' = [html_content EXCEPT ![p] = <<>>]
    /\ current_ads' = [current_ads EXCEPT ![p] = <<>>]
    /\ previous_ads' = [previous_ads EXCEPT ![p] = PyList(<<>>)]
    /\ new_ads' = [new_ads EXCEPT ![p] = <<>>]
    /\ mail' = [mail EXCEPT ![p] = "none"]
    /\ logged' = [logged EXCEPT ![p] = "none"]
    /\ response' = [response EXCEPT ![p] = NoResponse]
    /\ failed_at' = [failed_at EXCEPT ![p] = "none"]
    /\ fetched_after' = [fetched_after EXCEPT ![p] = {}]
    /\ UNCHANGED <<previous_ads_file, current_ads_file, unsent, lost>>

\* The except clauses of scrape(): FetchDataError is logged with
\* logger.error, anything else with logger.exception; scrape() returns.
handler(exc) == IF exc = "FetchDataError" THEN "error" ELSE "exception"

\* An exception reaches scrape() from the call named by at.
Fail(p, exc, at) ==
    /\ pc' = [pc EXCEPT ![p] = "Failed"]
    /\ failed_at' = [failed_at EXCEPT ![p] = at]
    /\ logged' = [logged EXCEPT ![p] = handler(exc)]

\* if html_content: an empty body is falsy, the block is skipped and
\* scrape() returns
after_fetch(content) == IF content # <<>> THEN "Extracting" ELSE "Skipped"

\* The triggers whose cycle is running and has its response
HaveResponse ==
    {q \in Triggers : pc[q] \in {"Extracting", "WritingCurrent", "Loading", "Diffing",
                                 "Notifying", "Persisting", "WritingPrevious"}}

\* html_content = fetch_data(), the body of a 2xx response drawn from bodies
Fetch(p, bodies) ==
    /\ pc[p] = "Fetching"
    /\ \E transport \in Transport :
       \E body \in (IF transport = "ok" THEN bodies ELSE {<<>>}) :
          LET r == fetch_data(transport, body) IN
          /\ response' = [response EXCEPT ![p] = [transport |-> transport, body |-> body]]
          /\ IF r.exc = "none"
             THEN /\ html_content' = [html_content EXCEPT ![p] = r.ret]
                  /\ pc' = [pc EXCEPT ![p] = after_fetch(r.ret)]
                  /\ fetched_after' = [fetched_after EXCEPT ![p] = HaveResponse]
                  /\ UNCHANGED <<failed_at, logged>>
             ELSE /\ Fail(p, r.exc, "Fetching")
                  /\ UNCHANGED <<html_content, fetched_after>>
    /\ UNCHANGED <<previous_ads_file, current_ads_file, cycles,
                   current_ads, previous_ads, new_ads, mail,  unsent, lost>>

\* How open(file_path, "w") goes: it cuts the file to length 0, or raises and
\* leaves the file as it is.
Disk == {"ok", "OSError"}

\* How many bytes a flush that raises (file size limit, full disk) has put in
\* the file: none, the bytes up to the first byte of the s-caron in the
\* description of ItemA, a hundred.
PartialWrites == {0, 93, 100}

\* Overlap is followed on the flush that stops after a hundred bytes.
PartialWritesOverlap == {100}

\* How the end of the with block goes, by the number of bytes that reach the
\* file: all of them, or fewer and OSError.
Flushed(bytes, partial) == {Len(bytes)} \cup {n \in partial : n < Len(bytes)}

\* current_ads = extract_ads(html_content), up to the open() of its save of
\* the current snapshot
Extract(p) ==
    /\ pc[p] = "Extracting"
    /\ LET r == parse_ads(html_content[p]) IN
       IF r.exc # "none"
       THEN /\ Fail(p, r.exc, "Extracting")
            /\ UNCHANGED <<current_ads_file, unsent, lost>>
       ELSE /\ unsent' = unsent \cap Range(r.ret)
            /\ lost' = lost \cap Range(r.ret)
            /\ \E io \in Disk :
               IF io = "ok"
               THEN /\ current_ads_file' = truncated(current_ads_file)
                    /\ pc' = [pc EXCEPT ![p] = "WritingCurrent"]
                    /\ UNCHANGED <<failed_at, logged>>
               ELSE /\ Fail(p, io, "Extracting")
                    /\ UNCHANGED current_ads_file
    /\ UNCHANGED <<previous_ads_file, cycles, html_content, current_ads,
                   previous_ads, new_ads, mail, response, fetched_after>>

\* The end of the with block of the save in extract_ads, and its return
WriteCurrent(p, partial) ==
    /\ pc[p] = "WritingCurrent"
    /\ LET ads == parse_ads(html_content[p]).ret
           bytes == snapshot_bytes(ads)
       IN
       \E n \in Flushed(bytes, partial) :
          /\ current_ads_file' = written(current_ads_file, bytes, n)
          /\ IF n = Len(bytes)
             THEN /\ current_ads' = [current_ads EXCEPT ![p] = ads]
                  /\ pc' = [pc EXCEPT ![p] = "Loading"]
                  /\ UNCHANGED <<failed_at, logged>>
             ELSE /\ Fail(p, "OSError", "Extracting")
                  /\ UNCHANGED current_ads
    /\ UNCHANGED <<previous_ads_file, cycles, html_content, previous_ads, new_ads,
                   mail, response, fetched_after, unsent, lost>>

\* previous_ads = load_ads_from_file(PREVIOUS_ADS_FILE)
Load(p) ==
    /\ pc[p] = "Loading"
    /\ LET r == load_ads_from_file(previous_ads_file) IN
       IF r.exc = "none"
       THEN /\ previous_ads' = [previous_ads EXCEPT ![p] = r.ret]
            /\ pc' = [pc EXCEPT ![p] = "Diffing"]
            /\ UNCHANGED <<failed_at, logged>>
       ELSE /\ Fail(p, r.exc, "Loading")
            /\ UNCHANGED previous_ads
    /\ UNCHANGED <<previous_ads_file, current_ads_file, cycles,
                   html_content, current_ads, new_ads, mail, response, fetched_after, unsent, lost>>

\* new_ads = check_for_new_ads(previous_ads, current_ads)
Diff(p) ==
    /\ pc[p] = "Diffing"
    /\ LET r == check_for_new_ads(previous_ads[p], current_ads[p]) IN
       IF r.exc = "none"
       THEN /\ new_ads' = [new_ads EXCEPT ![p] = r.ret]
            /\ pc' = [pc EXCEPT ![p] = "Notifying"]
            /\ UNCHANGED <<failed_at, logged>>
       ELSE /\ Fail(p, r.exc, "Diffing")
            /\ UNCHANGED new_ads
    /\ UNCHANGED <<previous_ads_file, current_ads_file, cycles,
                   html_content, current_ads, previous_ads, mail, response,
                   fetched_after, unsent, lost>>

\* send_notification(new_ads)
Notify(p) ==
    /\ pc[p] = "Notifying"
    /\ \E smtp \in SmtpOutcomes :
          LET r == send_notification(new_ads[p], smtp)
              session == IF ~r.attempted THEN "none"
                         ELSE IF r.delivered THEN "sent" ELSE "failed"
          IN
          /\ mail' = [mail EXCEPT ![p] = session]
          /\ unsent' = IF session = "failed" THEN unsent \cup Range(new_ads[p]) ELSE unsent
          /\ IF r.exc = "none"
             THEN /\ pc' = [pc EXCEPT ![p] = "Persisting"]
                  /\ UNCHANGED <<failed_at, logged>>
             ELSE Fail(p, r.exc, "Notifying")
    /\ UNCHANGED <<previous_ads_file, current_ads_file, cycles, html_content,
                   current_ads, previous_ads, new_ads, response, fetched_after, lost>>

\* A variant that saves only the ads found new.
snapshot_new_only(p) == new_ads[p]

\* A variant that leaves the ads whose mail failed out of the snapshot.
snapshot_unless_mail_failed(p) ==
    IF mail[p] = "failed"
    THEN SelectSeq(current_ads[p], LAMBDA ad : ad \notin Range(new_ads[p]))
    ELSE current_ads[p]

\* The first argument of save_ads_to_file(current_ads, PREVIOUS_ADS_FILE)
snapshot_to_persist(p) == current_ads[p]

\* save_ads_to_file(current_ads, PREVIOUS_ADS_FILE), up to its open()
Persist(p) ==
    /\ pc[p] = "Persisting"
    /\ \E io \in Disk :
          IF io = "ok"
          THEN /\ previous_ads_file' = truncated(previous_ads_file)
               /\ pc' = [pc EXCEPT ![p] = "WritingPrevious"]
               /\ UNCHANGED <<failed_at, logged>>
          ELSE /\ Fail(p, io, "Persisting")
               /\ UNCHANGED previous_ads_file
    /\ UNCHANGED <<current_ads_file, cycles, html_content, current_ads, previous_ads,
                   new_ads, mail, response, fetched_after, unsent, lost>>

\* The end of the with block of that save, and the return of scrape()
WritePrevious(p, partial) ==
    /\ pc[p] = "WritingPrevious"
    /\ LET bytes == snapshot_bytes(snapshot_to_persist(p)) IN
       \E n \in Flushed(bytes, partial) :
          /\ previous_ads_file' = written(previous_ads_file, bytes, n)
          /\ IF n = Len(bytes)
             THEN /\ pc' = [pc EXCEPT ![p] = "Done"]
                  /\ lost' = IF mail[p] = "failed" THEN lost \cup Range(new_ads[p])
                             ELSE lost
                  /\ UNCHANGED <<failed_at, logged>>
             ELSE /\ Fail(p, "OSError", "Persisting")
                  /\ lost' = {}
    /\ UNCHANGED <<current_ads_file, cycles, html_content, current_ads, previous_ads,
                   new_ads, mail, response, fetched_after, unsent>>

Step(p, bodies, partial) ==
    \/ Fetch(p, bodies)
    \/ Extract(p)
    \/ WriteCurrent(p, partial)
    \/ Load(p)
    \/ Diff(p)
    \/ Notify(p)
    \/ Persist(p)
    \/ WritePrevious(p, partial)

\* Cycles run one at a time, each to its end.
Next ==
    \/ \E p \in {"timer"} : worker_free /\ Start(p)
    \/ \E p \in {"timer"} : Step(p, Bodies, PartialWrites)

Spec == Init /\ [][Next]_vars

\* The timer and the on-demand request may coincide: each fires once, at any
\* time.  Overlap is followed on the responses that list ads.
NextOverlap ==
    \/ \E p \in Triggers : pc[p] = "Idle" /\ Start(p)
    \/ \E p \in Triggers : Step(p, ListingBodies, PartialWritesOverlap)

\* Overlap is followed from the start-up with the snapshot of an earlier run.
InitOverlap ==
    /\ Init
    /\ previous_ads_file = TextFile(json_dump(<<AdOld>>))

SpecOverlap == InitOverlap /\ [][NextOverlap]_vars

\* ================================================================ claims
T == "timer"
O == "ondemand"

\* The file f holds exactly the AdSet ads
Holds(f, ads) ==
    /\ f.exists
    /\ utf8_decode(f.bytes).exc = "none"
    /\ LET r == json_loads(utf8_decode(f.bytes).ret)
       IN  r.exc = "none" /\ py_eq(r.ret, PyAds(ads))

\* The AdSet that the response of trigger p's cycle lists
Listed(p) == parse_ads(response[p].body).ret

\* v is an AdSet: a list of dicts from str to str
IsAdSet(v) ==
    /\ v.py = "list"
    /\ \A i \in 1..Len(v.items) :
          /\ v.items[i].py = "dict"
          /\ \A k \in DOMAIN v.items[i].items : v.items[i].items[k].py = "str"

\* The record ad is equal to an element of the loaded value v
InLoaded(ad, v) ==
    v.py = "list" /\ \E j \in 1..Len(v.items) : py_eq(v.items[j], PyAd(ad))

\* C1: once a cycle has completed (fetch, extract and the final save all
\* succeeded), the previous-snapshot file holds exactly the AdSet extracted
\* from this cycle's response, same order, same duplicates: no record of the
\* older snapshot that is not listed survives, no listed record is missing.
C1_PreviousFileIsCycleAdSet ==
    \A p \in Triggers : pc[p] = "Done" =>
        /\ Holds(previous_ads_file, Listed(p))
        /\ LET kept == json_loads(utf8_decode(previous_ads_file.bytes).ret).ret
               old == previous_ads[p]
           IN  /\ Len(kept.items) = Len(Listed(p))
               /\ old.py = "list" =>
                    \A j \in 1..Len(old.items) :
                        (\A i \in 1..Len(Listed(p)) : ~py_eq(old.items[j], PyAd(Listed(p)[i])))
                        => \A k \in 1..Len(kept.items) : ~py_eq(kept.items[k], old.items[j])

\* A completed cycle whose old snapshot had a record no longer listed, and
\* whose listing shows the same record twice.
C1_Witness ==
    /\ pc[T] = "Done"
    /\ InLoaded(AdOld, previous_ads[T])
    /\ AdOld \notin Range(current_ads[T])
    /\ Len(current_ads[T]) = 2
    /\ current_ads[T][1] = current_ads[T][2]

\* res is the subsequence of cur made of the records equal to no record of prev
IsNewSubsequence(res, prev, cur) ==
    LET keep == {i \in 1..Len(cur) : ~InLoaded(cur[i], prev)}
        rank(i) == Cardinality({k \in keep : k <= i})
    IN  /\ Len(res) = Cardinality(keep)
        /\ \A i \in keep : res[rank(i)] = cur[i]

\* C2: for a previous AdSet and a current one, the diff computed in a cycle
\* is exactly the subsequence of the current AdSet made of the records equal
\* to no record of the previous one: in the order of current, once per
\* occurrence.
C2_DiffIsNewSubsequence ==
    \A p \in Triggers :
        (pc[p] \in {"Notifying", "Persisting", "WritingPrevious", "Done"}
         /\ IsAdSet(previous_ads[p]))
        => IsNewSubsequence(new_ads[p], previous_ads[p], current_ads[p])

\* A diff that reports the same record twice against a non-empty snapshot,
\* and one that tells two records apart by their location alone.
C2_Witness ==
    /\ pc[T] = "Notifying"
    /\ IsAdSet(previous_ads[T])
    /\ InLoaded(AdB, previous_ads[T])
    /\ current_ads[T] = <<AdA, AdA>>
    /\ new_ads[T] = <<AdA, AdA>>

FetchFailed(p) ==
    \/ response[p].transport \in {"ConnectionError", "HTTPError", "Timeout"}
    \/ \E i \in 1..Len(response[p].body) : response[p].body[i] = DenialMarker

\* C3: when the fetch of a cycle fails (transport error, or a body with the
\* denial phrase), the cycle ends at the fetch: the step that receives the
\* failure leaves both snapshot files as they are and attempts no SMTP
\* session, and nothing of the cycle runs after it.
C3_FetchFailureEndsCycle ==
    /\ [](\A p \in Triggers : FetchFailed(p) =>
            pc[p] = "Failed" /\ failed_at[p] = "Fetching" /\ mail[p] = "none")
    /\ [][\A p \in {T} :
            (FetchFailed(p)' /\ cycles' = cycles) =>
                /\ previous_ads_file' = previous_ads_file
                /\ current_ads_file' = current_ads_file
                /\ mail'[p] = "none"]_vars

\* A second cycle refused by the site, after a first one wrote both files;
\* the refused body also lists an ad.
C3_Witness ==
    /\ cycles = 2
    /\ pc[T] = "Failed"
    /\ response[T].transport = "ok"
    /\ DenialMarker \in Range(response[T].body)
    /\ ItemB \in Range(response[T].body)
    /\ Holds(previous_ads_file, <<AdA>>)
    /\ Holds(current_ads_file, <<AdA>>)

\* C4 as stated: a failed SMTP session never fails the cycle.  Once the send
\* has failed the cycle stands at the final save or is done, never failed,
\* with the current snapshot already written; and when the cycle is done the
\* previous-snapshot file holds the current AdSet.
C4_SendFailureNeverFailsCycle ==
    \A p \in Triggers : mail[p] = "failed" =>
        /\ pc[p] \in {"Persisting", "WritingPrevious", "Done"}
        /\ Holds(current_ads_file, current_ads[p])
        /\ pc[p] = "Done" => Holds(previous_ads_file, current_ads[p])

\* C4, amended: a failed SMTP session does not by itself fail the cycle.
\* Once the send has failed the cycle stands at the final save or past it,
\* with the current snapshot already written; if the cycle failed, it is the
\* final save that raised; and when the cycle is done the previous-snapshot
\* file holds the current AdSet.
C4_SendFailureFailsCycleOnlyAtSave ==
    \A p \in Triggers : mail[p] = "failed" =>
        /\ pc[p] \in {"Persisting", "WritingPrevious", "Done", "Failed"}
        /\ pc[p] = "Failed" => failed_at[p] = "Persisting"
        /\ Holds(current_ads_file, current_ads[p])
        /\ pc[p] = "Done" => Holds(previous_ads_file, current_ads[p])

\* A cycle that found a new ad, failed to send, and is done.
C4_Witness ==
    /\ pc[T] = "Done"
    /\ mail[T] = "failed"
    /\ new_ads[T] # <<>>
    /\ ~Holds(previous_ads_file, <<>>)
    /\ InLoaded(AdOld, previous_ads[T])

\* C5: load_ads_from_file never raises, and returns the empty AdSet when the
\* file is absent or does not deserialize, whatever the state of the file.
C5_LoadNeverRaises ==
    \A p \in Triggers : pc[p] = "Loading" =>
        LET r == load_ads_from_file(previous_ads_file) IN
        /\ r.exc = "none"
        /\ (\/ ~previous_ads_file.exists
            \/ utf8_decode(previous_ads_file.bytes).exc # "none"
            \/ json_loads(utf8_decode(previous_ads_file.bytes).ret).exc # "none")
           => py_eq(r.ret, PyList(<<>>))

SendDone(p) ==
    \/ pc[p] \in {"Persisting", "WritingPrevious", "Done"}
    \/ pc[p] = "Failed" /\ failed_at[p] \in {"Notifying", "Persisting"}

\* Every current ad is equal to a record of the previous snapshot
NothingNew(p) ==
    \A i \in 1..Len(current_ads[p]) : InLoaded(current_ads[p][i], previous_ads[p])

\* C6: send_notification with an empty list attempts no SMTP session and does
\* not raise; in a cycle a session is attempted only when some current ad is
\* equal to no ad of the previous snapshot.
C6_NoSendWithoutNewAds ==
    \A p \in Triggers :
        /\ (SendDone(p) /\ NothingNew(p)) => (mail[p] = "none" /\ failed_at[p] # "Notifying")
        /\ mail[p] # "none" => (new_ads[p] # <<>> /\ ~NothingNew(p))

\* A completed cycle whose listing is not empty and is all in the snapshot.
C6_Witness ==
    /\ pc[T] = "Done"
    /\ current_ads[T] # <<>>
    /\ NothingNew(T)
    /\ new_ads[T] = <<>>
    /\ mail[T] = "none"

\* C7: a cycle that has ended is Done, the previous-snapshot file holding its
\* AdSet, or Failed, with an error logged; there is no third outcome.
C7_DoneOrFailed ==
    \A p \in Triggers : pc[p] \in Ended =>
        \/ pc[p] = "Done" /\ Holds(previous_ads_file, current_ads[p])
        \/ pc[p] = "Failed" /\ logged[p] # "none"

\* C8 as stated: Failed is entered only from Fetching or Extracting, and a
\* cycle that has reached Diffing proceeds to Done.  The state machine of the
\* claim has no state for the load of the previous snapshot, which lies
\* between Extracting and Diffing; the load, and the diff against what it
\* returned, are counted here with Extracting.
C8_FailedOnlyFromFetchOrExtract ==
    \A p \in Triggers : pc[p] = "Failed" =>
        failed_at[p] \in {"Fetching", "Extracting", "Loading", "Diffing"}

OwnState(p) ==
    <<html_content[p], current_ads[p], previous_ads[p], new_ads[p], mail[p], logged[p],
      failed_at[p], previous_ads_file, current_ads_file>>

\* C8, amended: Failed is entered only from Fetching, Extracting, the load of
\* the previous snapshot, Diffing when the loaded value is not a list, or
\* Persisting; Diffing on a list always leads to Notifying and Notifying to
\* Persisting; after Failed nothing of the cycle runs: the next step of the
\* trigger is the start of a new cycle.
C8_FailedOnlyFromFetchExtractLoadDiffPersist ==
    [][\A p \in {T} :
        /\ (pc'[p] = "Failed" /\ pc[p] # "Failed") =>
               /\ pc[p] \in {"Fetching", "Extracting", "WritingCurrent", "Loading",
                             "Diffing", "Persisting", "WritingPrevious"}
               /\ failed_at'[p] = (IF pc[p] = "WritingCurrent" THEN "Extracting"
                                   ELSE IF pc[p] = "WritingPrevious" THEN "Persisting"
                                   ELSE pc[p])
        /\ (pc[p] = "Diffing" /\ pc'[p] # pc[p]) =>
               pc'[p] = (IF previous_ads[p].py = "list" \/ current_ads[p] = <<>>
                         THEN "Notifying" ELSE "Failed")
        /\ (pc[p] = "Notifying" /\ pc'[p] # pc[p]) => pc'[p] = "Persisting"
        /\ pc[p] = "Failed" =>
               \/ pc'[p] = "Fetching" /\ cycles' = cycles + 1
               \/ pc'[p] = "Failed" /\ OwnState(p)' = OwnState(p)]_vars

\* A cycle that went through Diffing and Notifying, sent its mail, and failed
\* at the end of the final save, a hundred bytes of the snapshot written.
C8_Witness ==
    /\ pc[T] = "Failed"
    /\ failed_at[T] = "Persisting"
    /\ mail[T] = "sent"
    /\ LET bytes == snapshot_bytes(current_ads[T])
       IN  Len(bytes) > 100 /\ previous_ads_file.bytes = SubSeq(bytes, 1, 100)

\* C9: no lock.  A trigger whose own cycle is not running can start a cycle
\* whatever the other trigger's cycle is doing; the files are only touched by
\* the running cycles, step by step.
C9_NoLock ==
    \A p \in Triggers :
        (pc[p] \in Ended \cup {"Idle"} /\ cycles < MaxCycles) => ENABLED Start(p)

\* Two overlapping cycles, the timer's response first.  Both loaded the
\* snapshot before either overwrote it and both sent a mail with the same
\* new ad; the previous-snapshot file ends with the AdSet of the timer's
\* cycle, not with that of the later response.
C9_Witness ==
    /\ pc[T] = "Done" /\ pc[O] = "Done"
    /\ T \in fetched_after[O]
    /\ py_eq(previous_ads[T], previous_ads[O])
    /\ InLoaded(AdOld, previous_ads[T])
    /\ mail[T] = "sent" /\ mail[O] = "sent"
    /\ AdA \in Range(new_ads[T]) \cap Range(new_ads[O])
    /\ current_ads[T] # current_ads[O]
    /\ Holds(previous_ads_file, current_ads[T])

\* C10 as stated: an ad that was new in a cycle whose send failed, and that
\* has been listed ever since, is in the diff of no later cycle.
C10_FailedNotificationIsLost ==
    \A p \in Triggers : pc[p] = "Notifying" =>
        \A r \in unsent : r \notin Range(new_ads[p])

\* C10, amended: an ad that was new in a cycle whose send failed and whose
\* final save succeeded, and that has been listed ever since, no later write
\* of the previous snapshot having failed, is in the previous snapshot a
\* later cycle loads and is not in that cycle's diff: it is not reported.
C10_FailedNotificationIsLostOnceSaved ==
    \A p \in Triggers : \A r \in lost :
        /\ pc[p] \in {"Diffing", "Notifying", "Persisting", "WritingPrevious"}
              => InLoaded(r, previous_ads[p])
        /\ pc[p] \in {"Notifying", "Persisting", "WritingPrevious"}
              => r \notin Range(new_ads[p])

\* A later cycle lists the lost ad beside a new one and reports only the new one.
C10_Witness ==
    /\ pc[T] = "Persisting"
    /\ AdA \in lost
    /\ current_ads[T] = <<AdA, AdB>>
    /\ new_ads[T] = <<AdB>>
    /\ mail[T] = "sent"

====
